---- MODULE Spec2Model ----
(***************************************************************************)
(* Wildfire exposure of pipeline segments (wildfire_exposure_v02.py).     *)
(*                                                                         *)
(* The script is a linear pipeline: chunked zonal statistics over the     *)
(* buffered segments, derivation of burn_mean / burn_exposed, min-max     *)
(* normalisation into burn_norm, GeoJSON export, map rendering.  An       *)
(* unhandled exception at any step ends the process.                      *)
(*                                                                         *)
(* Optional values (Python None, pandas NaN, JSON null) are sequences of  *)
(* length 0 or 1: None == <<>>, Some(v) == <<v>>.  burn_mean is counted   *)
(* in tenths (15 stands for 1.5); a burn_norm quotient is kept exactly as *)
(* the pair <<numerator, denominator>>.                                   *)
(***************************************************************************)
EXTENDS Integers, Sequences, FiniteSets, TLC

\* ----------------------------------------------------------------- bounds
MaxN == 3
MaxChunk == 3

\* -------------------------------------------------------------- constants
NODATA == 65535

None == <<>>
Some(v) == <<v>>

Min2(a, b) == IF a <= b THEN a ELSE b

\* Values the external zonal_stats call can report for one polygon.
MeanValues == {10, 15}
CountValues == {0, 100}

\* One record of zonal_stats(stats=["mean","min","count","nodata"]): null, or
\* a dict; the mean (and the min) of a zone with no valid cell is None.
ZonalRecords ==
    {None} \cup
    { Some(r) : r \in
        { x \in [mean : {None} \cup {Some(m) : m \in MeanValues},
                 min : {None, Some(1), Some(NODATA)},
                 count : CountValues,
                 nodata : CountValues] :
            /\ (x.mean = None) <=> (x.count = 0)
            /\ (x.count = 0) => x.min \in {None, Some(NODATA)}
            /\ (x.count > 0) => x.min \in {Some(1), Some(NODATA)} } }

VARIABLES
    gdf,          \* buffered: the ordered buffer polygons (row identities)
    raster,       \* what the raster holds under each polygon
    chunk_size,   \* B
    pc,           \* position of the script
    start,        \* loop variable of range(0, total, chunk_size)
    all_stats,    \* accumulator of run_chunked_zonal_stats
    batches,      \* history: <<start, end>> of every zonal_stats invocation
    failed_at,    \* history: None, or Some(k) when invocation k raised
    burn_stats,   \* None until run_chunked_zonal_stats has returned
    burn_mean,
    burn_exposed,
    burn_norm,
    columns,      \* derived columns present on pipe
    geojson,      \* None, or Some(rows) once the file is written
    map_written

vars == <<gdf, raster, chunk_size, pc, start, all_stats, batches, failed_at,
          burn_stats, burn_mean, burn_exposed, burn_norm, columns, geojson,
          map_written>>

total == Len(gdf)

\* The values the script's state takes
NormValues == {None} \cup {Some(<<n, d>>) : n \in -20..20, d \in -20..20}

TypeOK ==
    /\ gdf \in Seq(Nat)
    /\ DOMAIN raster = 1..Len(gdf)
    /\ \A i \in DOMAIN raster : raster[i] \in ZonalRecords
    /\ chunk_size \in Nat \ {0}
    /\ pc \in {"loop", "derive", "normalize", "export", "render", "done", "aborted"}
    /\ start \in Nat
    /\ \A i \in 1..Len(all_stats) : all_stats[i] \in ZonalRecords
    /\ \A j \in 1..Len(batches) : batches[j] \in Nat \X Nat
    /\ failed_at \in {None} \cup {Some(k) : k \in 1..Len(batches)}
    /\ burn_stats = None \/ burn_stats = Some(all_stats)
    /\ \A i \in 1..Len(burn_mean) :
          burn_mean[i] \in {None} \cup {Some(v) : v \in MeanValues}
    /\ \A i \in 1..Len(burn_exposed) : burn_exposed[i] \in {0, 1}
    /\ \A i \in 1..Len(burn_norm) : burn_norm[i] \in NormValues
    /\ columns \subseteq {"burn_mean", "burn_exposed", "burn_norm"}
    /\ geojson = None \/ Len(geojson[1]) = Len(gdf)
    /\ map_written \in BOOLEAN

\* ------------------------------------------------ 2. chunked zonal stats
\* end = min(start + chunk_size, total)
BatchEnd(s, B, n) == Min2(s + B, n)

\* Mutant: the slice loses the last row of every batch (iloc[start:end-1]).
ChunkDropLast(g, s, e) == SubSeq(g, s + 1, e - 1)

\* chunk = gdf.iloc[start:end]   (0-based half-open -> 1-based closed)
Chunk(g, s, e) == SubSeq(g, s + 1, e)

\* zonal_stats(vectors=chunk.geometry, raster=...): one record per polygon of
\* the chunk, in the chunk's order, a function of that polygon and the raster.
ZonalStats(chunk, r) == [i \in 1..Len(chunk) |-> r[chunk[i]]]

\* Mutant: each batch is put in front of the accumulator.
ExtendPrepend(acc, stats) == stats \o acc

\* all_stats.extend(stats)
Extend(acc, stats) == acc \o stats

\* Mutant: the step of the range is one too large.
NextStartSkip(s, B) == s + B + 1

\* for start in range(0, total, chunk_size): the next value of start
NextStart(s, B) == s + B

\* The whole function when no invocation raises.
RECURSIVE ChunkedFrom(_, _, _, _, _)
ChunkedFrom(g, r, B, s, acc) ==
    IF s < Len(g)
    THEN ChunkedFrom(g, r, B, NextStart(s, B),
                     Extend(acc, ZonalStats(Chunk(g, s, BatchEnd(s, B, Len(g))), r)))
    ELSE acc

run_chunked_zonal_stats(g, r, B) == ChunkedFrom(g, r, B, 0, <<>>)

\* -------------------------------------------------- derived columns
\* s["mean"] if s else None
BurnMean(s) == IF s # None THEN s[1].mean ELSE None

\* Mutant: >= in place of > between the two counts.
BurnExposedGe(s) ==
    IF s # None /\ s[1].min # Some(NODATA) /\ s[1].count >= s[1].nodata
    THEN 1 ELSE 0

\* Mutant: the comparison of the two counts is missing.
BurnExposedNoCount(s) ==
    IF s # None /\ s[1].min # Some(NODATA) THEN 1 ELSE 0

\* 1 if s and s["min"] != 65535 and s["count"] > s.get("nodata", 0) else 0
BurnExposed(s) ==
    IF s # None /\ s[1].min # Some(NODATA) /\ s[1].count > s[1].nodata
    THEN 1 ELSE 0

\* -------------------------------------------------- 3. normalisation
NonNull(col) == {col[i][1] : i \in {j \in DOMAIN col : col[j] # None}}

\* Series.min() / Series.max(): NaN is skipped; NaN when nothing is left
SeriesMin(col) ==
    IF NonNull(col) = {} THEN None
    ELSE Some(CHOOSE v \in NonNull(col) : \A w \in NonNull(col) : v <= w)

SeriesMax(col) ==
    IF NonNull(col) = {} THEN None
    ELSE Some(CHOOSE v \in NonNull(col) : \A w \in NonNull(col) : v >= w)

\* Mutant: a NaN operand is taken as 0 (fillna(0) before subtracting).
SubFillZero(a, b) ==
    Some((IF a = None THEN 0 ELSE a[1]) - (IF b = None THEN 0 ELSE b[1]))

\* float subtraction: NaN when either operand is NaN
Sub(a, b) == IF a = None \/ b = None THEN None ELSE Some(a[1] - b[1])

\* The outcome "the division raised"
DivError == Some(<<>>)

\* Mutant: the division of plain Python objects, which raises on a None
\* operand and on a zero divisor.
DivRaising(a, b) ==
    IF a = None \/ b = None THEN DivError
    ELSE IF b[1] = 0 THEN DivError
    ELSE Some(<<a[1], b[1]>>)

\* float64 division of pandas/numpy: NaN operand -> NaN, 0/0 -> NaN,
\* x/0 -> inf (kept as <<x, 0>>); it never raises.
Div(a, b) ==
    IF a = None \/ b = None THEN None
    ELSE IF b[1] = 0 /\ a[1] = 0 THEN None
    ELSE Some(<<a[1], b[1]>>)

\* Mutant: the minimum is not subtracted in the numerator.
BurnNormRaw(col) ==
    LET lo == SeriesMin(col)
        hi == SeriesMax(col)
        den == Sub(hi, lo)
    IN  [i \in DOMAIN col |-> Div(col[i], den)]

\* (burn_mean - burn_mean.min()) / (burn_mean.max() - burn_mean.min())
BurnNorm(col) ==
    LET lo == SeriesMin(col)
        hi == SeriesMax(col)
        den == Sub(hi, lo)
    IN  [i \in DOMAIN col |-> Div(Sub(col[i], lo), den)]

\* ------------------------------------------------------------ the run
Init ==
    /\ \E n \in 0..MaxN :
          /\ gdf = [i \in 1..n |-> i]
          /\ raster \in [1..n -> ZonalRecords]
    /\ chunk_size \in 1..MaxChunk
    /\ pc = "loop"
    /\ start = 0
    /\ all_stats = <<>>
    /\ batches = <<>>
    /\ failed_at = None
    /\ burn_stats = None
    /\ burn_mean = <<>>
    /\ burn_exposed = <<>>
    /\ burn_norm = <<>>
    /\ columns = {}
    /\ geojson = None
    /\ map_written = FALSE

\* One iteration of the loop body whose zonal_stats call returns.
ProcessBatch ==
    /\ pc = "loop"
    /\ start < total
    /\ LET end == BatchEnd(start, chunk_size, total)
           chunk == Chunk(gdf, start, end)
           stats == ZonalStats(chunk, raster)
       IN  /\ batches' = Append(batches, <<start, end>>)
           /\ all_stats' = Extend(all_stats, stats)
    /\ start' = NextStart(start, chunk_size)
    /\ UNCHANGED <<gdf, raster, chunk_size, pc, failed_at, burn_stats,
                   burn_mean, burn_exposed, burn_norm, columns, geojson,
                   map_written>>

\* Mutant: the exception of a batch is swallowed and the loop goes on.
BatchFailsSkipped ==
    /\ pc = "loop"
    /\ start < total
    /\ batches' = Append(batches, <<start, BatchEnd(start, chunk_size, total)>>)
    /\ failed_at' = Some(Len(batches) + 1)
    /\ start' = NextStart(start, chunk_size)
    /\ UNCHANGED <<gdf, raster, chunk_size, pc, all_stats, burn_stats,
                   burn_mean, burn_exposed, burn_norm, columns, geojson,
                   map_written>>

\* One iteration whose zonal_stats call raises: nothing catches it.
BatchFails ==
    /\ pc = "loop"
    /\ start < total
    /\ batches' = Append(batches, <<start, BatchEnd(start, chunk_size, total)>>)
    /\ failed_at' = Some(Len(batches) + 1)
    /\ pc' = "aborted"
    /\ UNCHANGED <<gdf, raster, chunk_size, start, all_stats, burn_stats,
                   burn_mean, burn_exposed, burn_norm, columns, geojson,
                   map_written>>

\* The range is exhausted: return all_stats; burn_stats = ...
ReturnStats ==
    /\ pc = "loop"
    /\ start >= total
    /\ burn_stats' = Some(all_stats)
    /\ pc' = "derive"
    /\ UNCHANGED <<gdf, raster, chunk_size, start, all_stats, batches,
                   failed_at, burn_mean, burn_exposed, burn_norm, columns,
                   geojson, map_written>>

\* buffered["burn_mean"] = ...; buffered["burn_exposed"] = ...; copied to pipe
Derive ==
    /\ pc = "derive"
    /\ LET bs == burn_stats[1]
       IN  /\ burn_mean' = [i \in DOMAIN bs |-> BurnMean(bs[i])]
           /\ burn_exposed' = [i \in DOMAIN bs |-> BurnExposed(bs[i])]
    /\ columns' = columns \cup {"burn_mean", "burn_exposed"}
    /\ pc' = "normalize"
    /\ UNCHANGED <<gdf, raster, chunk_size, start, all_stats, batches,
                   failed_at, burn_stats, burn_norm, geojson, map_written>>

\* pipe["burn_norm"] = ...; an exception in the expression ends the run
Normalize ==
    /\ pc = "normalize"
    /\ LET norm == BurnNorm(burn_mean)
       IN  IF \E i \in DOMAIN norm : norm[i] = DivError
           THEN /\ pc' = "aborted"
                /\ UNCHANGED <<burn_norm, columns>>
           ELSE /\ burn_norm' = norm
                /\ columns' = columns \cup {"burn_norm"}
                /\ pc' = "export"
    /\ UNCHANGED <<gdf, raster, chunk_size, start, all_stats, batches,
                   failed_at, burn_stats, burn_mean, burn_exposed, geojson,
                   map_written>>

\* One exported feature
Feature(i) ==
    [burn_mean |-> burn_mean[i],
     burn_exposed |-> burn_exposed[i],
     burn_norm |-> burn_norm[i]]

\* pipe.drop(columns="buffer_500m"); pipe.to_file(geojson_out, driver="GeoJSON")
Export ==
    /\ pc = "export"
    /\ geojson' = Some([i \in 1..total |-> Feature(i)])
    /\ pc' = "render"
    /\ UNCHANGED <<gdf, raster, chunk_size, start, all_stats, batches,
                   failed_at, burn_stats, burn_mean, burn_exposed, burn_norm,
                   columns, map_written>>

\* plt.savefig(map_out, dpi=300)
Render ==
    /\ pc = "render"
    /\ map_written' = TRUE
    /\ pc' = "done"
    /\ UNCHANGED <<gdf, raster, chunk_size, start, all_stats, batches,
                   failed_at, burn_stats, burn_mean, burn_exposed, burn_norm,
                   columns, geojson>>

Next ==
    \/ ProcessBatch
    \/ BatchFails
    \/ ReturnStats
    \/ Derive
    \/ Normalize
    \/ Export
    \/ Render

Spec == Init /\ [][Next]_vars

\* The batching of the loop reads no record: its runs are taken over rasters
\* of two kinds of zone (no record, valid cells only).
BatchingRecords ==
    {None, Some([mean |-> Some(15), min |-> Some(1), count |-> 100, nodata |-> 0])}

BatchingInit == Init /\ \A i \in DOMAIN raster : raster[i] \in BatchingRecords

\* The interpreter runs the single thread until the script ends: a step that
\* can be taken is taken.
BatchingSpec == BatchingInit /\ [][Next]_vars /\ WF_vars(Next)

\* ------------------------------------------------------------ helpers
Returned == burn_stats # None

LoopCompleted == pc \in {"derive", "normalize", "export", "render", "done"}

Normalized == pc \in {"export", "render", "done"}

CeilDiv(n, B) == (n + B - 1) \div B

\* A burn_norm value equal to the number k (k = 0 or k = 1)
IsNumber(x, k) == x # None /\ x # DivError /\ x[1][2] # 0 /\ x[1][1] = k * x[1][2]

\* A burn_norm value inside the closed interval [0, 1]
InUnitInterval(x) ==
    x # None /\ x # DivError /\ x[1][2] > 0 /\ 0 <= x[1][1] /\ x[1][1] <= x[1][2]

\* ------------------------------------------------------------- claims

\* C1: whatever the chunk size, run_chunked_zonal_stats returns exactly one
\* record per input polygon, the i-th record being the zonal record of the
\* i-th polygon: nothing is dropped, duplicated or reordered at a batch
\* boundary.
C1_OneRecordPerPolygon ==
    Returned =>
        /\ Len(burn_stats[1]) = Len(gdf)
        /\ \A i \in 1..Len(gdf) : burn_stats[1][i] = raster[gdf[i]]

C1_Witness ==
    /\ Returned
    /\ Len(gdf) = 3
    /\ chunk_size = 2
    /\ Len(batches) = 2
    /\ \A i, j \in 1..3 : i # j => raster[i] # raster[j]

\* C2: chunking invariance: the records run_chunked_zonal_stats has just
\* returned with the chunk size of the run are those returned with one
\* batch (chunk size N) and those returned with N batches (chunk size 1),
\* and the same for every chunk size >= 1.
C2_ChunkingInvariance ==
    pc = "derive" =>
        /\ burn_stats[1] = run_chunked_zonal_stats(gdf, raster, 1)
        /\ Len(gdf) >= 1 =>
              burn_stats[1] = run_chunked_zonal_stats(gdf, raster, Len(gdf))
        /\ \A B \in 1..MaxChunk :
              burn_stats[1] = run_chunked_zonal_stats(gdf, raster, B)

C2_Witness ==
    /\ pc = "derive"
    /\ Len(gdf) = 3
    /\ chunk_size = 2
    /\ raster[1] # raster[2]
    /\ raster[2] # raster[3]
    /\ burn_stats[1] = run_chunked_zonal_stats(gdf, raster, 3)

\* C3: burn_exposed is 1 exactly when the record exists, its min is not the
\* nodata sentinel 65535 and its valid-cell count exceeds its nodata-cell
\* count; it is 0 otherwise, in particular for a null record and for a record
\* whose min is 65535.
C3_ExposureRule ==
    "burn_exposed" \in columns =>
        /\ Len(burn_exposed) = Len(gdf)
        /\ \A i \in 1..Len(gdf) :
              LET s == burn_stats[1][i]
              IN  /\ burn_exposed[i] \in {0, 1}
                  /\ burn_exposed[i] = 1 <=>
                        /\ s # None
                        /\ s[1].min # Some(65535)
                        /\ s[1].count > s[1].nodata
                  /\ s = None => burn_exposed[i] = 0
                  /\ (s # None /\ s[1].min = Some(65535)) => burn_exposed[i] = 0

C3_Witness ==
    /\ "burn_exposed" \in columns
    /\ Len(gdf) = 3
    /\ burn_exposed = <<1, 0, 0>>
    /\ burn_stats[1][2] = None
    /\ burn_stats[1][3] # None
    /\ burn_stats[1][3][1].min = Some(65535)
    /\ burn_stats[1][3][1].count > burn_stats[1][3][1].nodata

ScenarioA == Some([mean |-> Some(15), min |-> Some(1), count |-> 100, nodata |-> 0])
ScenarioB == Some([mean |-> None, min |-> Some(65535), count |-> 0, nodata |-> 100])
ScenarioC == None

\* C5: in the end-to-end scenario (A valid cells only, B nodata only, C no
\* record) the run yields burn_exposed 1, 0, 0, A.burn_norm = 1.0, and a null
\* burn_mean and burn_norm for B and C.
C5_Scenario ==
    (geojson # None /\ Len(gdf) = 3 /\ raster = <<ScenarioA, ScenarioB, ScenarioC>>) =>
        /\ geojson[1][1].burn_exposed = 1
        /\ geojson[1][2].burn_exposed = 0
        /\ geojson[1][3].burn_exposed = 0
        /\ IsNumber(geojson[1][1].burn_norm, 1)
        /\ geojson[1][2].burn_mean = None
        /\ geojson[1][3].burn_mean = None
        /\ geojson[1][2].burn_norm = None
        /\ geojson[1][3].burn_norm = None

\* C6: when every burn_mean is null (the empty feature set included) the
\* normalisation raises nothing, every burn_norm is null, and the run goes on
\* to the export stage.
C6_AllNullMeans ==
    ("burn_mean" \in columns /\ \A i \in 1..Len(burn_mean) : burn_mean[i] = None) =>
        /\ pc # "aborted"
        /\ pc # "normalize" =>
              /\ Normalized
              /\ "burn_norm" \in columns
              /\ Len(burn_norm) = Len(gdf)
              /\ \A i \in 1..Len(gdf) : burn_norm[i] = None

C6_Witness ==
    /\ pc = "export"
    /\ Len(gdf) = 2
    /\ "burn_norm" \in columns
    /\ burn_mean = <<None, None>>
    /\ burn_norm = <<None, None>>

\* C7: in the exported feature collection every burn_norm is null or lies
\* in [0, 1], and a feature with a null burn_mean has a null burn_norm.
C7_NormRange ==
    geojson # None =>
        \A i \in 1..Len(geojson[1]) :
            LET f == geojson[1][i]
            IN  /\ f.burn_norm = None \/ InUnitInterval(f.burn_norm)
                /\ f.burn_mean = None => f.burn_norm = None

C7_Witness ==
    /\ geojson # None
    /\ Len(geojson[1]) = 3
    /\ geojson[1][1].burn_mean = None
    /\ geojson[1][1].burn_norm = None
    /\ IsNumber(geojson[1][2].burn_norm, 0)
    /\ IsNumber(geojson[1][3].burn_norm, 1)

\* C8: when the zonal-statistics call of batch k raises, the run is over at
\* that batch: batch k was the last one invoked and was invoked once, no
\* record list is returned, no derived column exists, and neither the
\* GeoJSON file nor the map is written.
C8_FailureAborts ==
    failed_at # None =>
        /\ pc = "aborted"
        /\ Len(batches) = failed_at[1]
        /\ \A i, j \in 1..Len(batches) : i # j => batches[i] # batches[j]
        /\ burn_stats = None
        /\ columns = {}
        /\ burn_mean = <<>> /\ burn_exposed = <<>> /\ burn_norm = <<>>
        /\ geojson = None
        /\ ~map_written

C8_Witness ==
    /\ failed_at = Some(2)
    /\ pc = "aborted"
    /\ Len(gdf) = 3
    /\ chunk_size = 1
    /\ Len(all_stats) = 1

\* The batches invoked so far are non-empty, contiguous from 0 in ascending
\* order, of size <= B with only the last possibly smaller, never more than
\* ceil(N/B) of them, and cover exactly [0, N) once the loop has completed.
BatchesWellFormed ==
    /\ \A j \in 1..Len(batches) :
          /\ batches[j][1] < batches[j][2]
          /\ batches[j][2] - batches[j][1] <= chunk_size
          /\ batches[j][2] <= Len(gdf)
          /\ batches[j][1] = (j - 1) * chunk_size
          /\ j < Len(batches) =>
                /\ batches[j][2] - batches[j][1] = chunk_size
                /\ batches[j + 1][1] = batches[j][2]
    /\ Len(batches) <= CeilDiv(Len(gdf), chunk_size)
    /\ LoopCompleted =>
          /\ Len(batches) = CeilDiv(Len(gdf), chunk_size)
          /\ Len(gdf) = 0 => batches = <<>>
          /\ Len(gdf) > 0 => batches[Len(batches)][2] = Len(gdf)

\* C9: the loop takes the batches one after another in ascending order; they
\* are non-empty, contiguous, disjoint ranges [start, end) covering exactly
\* [0, N), each of size <= B and only the last possibly smaller, so
\* zonal_stats is invoked ceil(N/B) times (never for N = 0), and the loop
\* terminates.
C9_Batching == []BatchesWellFormed /\ <>(pc # "loop")

C9_Witness ==
    /\ LoopCompleted
    /\ Len(gdf) = 3
    /\ chunk_size = 2
    /\ batches = << <<0, 2>>, <<2, 3>> >>

\* C10: for records whose mean is null exactly when their valid-cell count
\* is 0, an exposed feature has a non-null burn_mean; equivalently a null
\* burn_mean goes with burn_exposed = 0.
C10_ExposedHasMean ==
    "burn_exposed" \in columns =>
        \A i \in 1..Len(gdf) :
            LET s == burn_stats[1][i]
            IN  (s = None \/ ((s[1].mean = None) <=> (s[1].count = 0))) =>
                    /\ burn_exposed[i] = 1 => burn_mean[i] # None
                    /\ burn_mean[i] = None => burn_exposed[i] = 0

C10_Witness ==
    /\ "burn_exposed" \in columns
    /\ Len(gdf) = 2
    /\ burn_exposed = <<1, 0>>
    /\ burn_mean[1] # None
    /\ burn_mean[2] = None
    /\ burn_stats[1][2] # None
    /\ burn_stats[1][2][1].count = 0
    /\ burn_stats[1][2][1].nodata = 0

====
